---- MODULE Spec2Model ----
(***************************************************************************)
(* Timing/synchronisation engine of text-vid: TextUnit.make_subtitles      *)
(* (text_vid/tts/text_unit.py), Duration (text_vid/tts/duration.py),       *)
(* VideoGenerator (text_vid/video/video_generator.py), and the naming of   *)
(* the audio files by Processor (text_vid/tts/processor.py) as App         *)
(* (text_vid/app.py) processes a passage.                                  *)
(***************************************************************************)
EXTENDS Integers, Sequences, FiniteSets, TLC

(***************************************************************************)
(* Python floats.  A float is [m, e]: m is the 53-bit significand, most    *)
(* significant bit first, and the value is m * 2^e; zero has m = <<>>.     *)
(* A float value here is non-negative; the product with a negative frame   *)
(* rate is the negated product with its absolute value.  Division and      *)
(* multiplication round to nearest, ties to even, as CPython's float       *)
(* operations do.                                                          *)
(***************************************************************************)
MantBits == 53

FZero == [m |-> <<>>, e |-> 0]

RECURSIVE Pow2(_)
Pow2(n) == IF n = 0 THEN 1 ELSE 2 * Pow2(n - 1)

\* number of binary digits of a natural number n < 2^30
BitLen(n) == CHOOSE L \in 0..30 : Pow2(L) > n /\ (L = 0 \/ Pow2(L - 1) <= n)

\* the low w binary digits of n, most significant first
BitsW(n, w) == [i \in 1..w |-> (n \div Pow2(w - i)) % 2]

\* binary digits of a natural number, most significant first (<<>> for 0)
Bin(n) == BitsW(n, BitLen(n))

RECURSIVE ToInt(_)
\* the natural number with these binary digits (fewer than 31)
ToInt(bits) ==
    IF Len(bits) = 0 THEN 0
    ELSE IF Len(bits) = 1 THEN bits[1]
    ELSE LET h == Len(bits) \div 2 IN
         ToInt(SubSeq(bits, 1, h)) * Pow2(Len(bits) - h)
         + ToInt(SubSeq(bits, h + 1, Len(bits)))

Zeros(n) == [i \in 1..n |-> 0]

RECURSIVE RemAfterChunks(_, _, _)
\* long division, 7 binary digits at a time: (r * 2^(7 * j)) % d, d < 2^24
RemAfterChunks(r, d, j) ==
    IF j = 0 THEN r
    ELSE (RemAfterChunks(r, d, j - 1) * 128) % d

\* the i-th binary digit of r / d after the point, 0 <= r < d, i >= 1
FracBit(r, d, i) ==
    LET j     == (i - 1) \div 7
        p     == (i - 1) % 7
        digit == (RemAfterChunks(r, d, j) * 128) \div d
    IN  (digit \div Pow2(6 - p)) % 2

\* the first n binary digits of r / d after the point
FracBits(r, d, n) == [i \in 1..n |-> FracBit(r, d, i)]

\* what is left of r / d after n binary digits: (r * 2^n) % d
FracRem(r, d, n) ==
    (RemAfterChunks(r, d, n \div 7) * Pow2(n % 7)) % d

\* number of zero digits before the first one in r / d, 0 < r < d < 2^24
LeadingZeros(r, d) ==
    CHOOSE z \in 0..30 : /\ FracBit(r, d, z + 1) = 1
                         /\ \A i \in 1..z : FracBit(r, d, i) = 0

\* bits + 1, same length, for bits that are not all ones
IncBits(bits) ==
    LET p == CHOOSE i \in 1..Len(bits) :
                 bits[i] = 0 /\ \A j \in (i + 1)..Len(bits) : bits[j] = 1
    IN  [i \in 1..Len(bits) |-> IF i < p THEN bits[i]
                                 ELSE IF i = p THEN 1 ELSE 0]

\* round the exact value (bits followed by a non-zero tail iff sticky) * 2^e,
\* bits[1] = 1, to a float: nearest, ties to even
FRound(bits, sticky, e) ==
    LET L == Len(bits) IN
    IF L <= MantBits
    THEN [m |-> bits \o Zeros(MantBits - L), e |-> e - (MantBits - L)]
    ELSE LET keep  == SubSeq(bits, 1, MantBits)
             guard == bits[MantBits + 1]
             rest  == sticky \/ \E i \in (MantBits + 2)..L : bits[i] = 1
             up    == guard = 1 /\ (rest \/ keep[MantBits] = 1)
             e2    == e + (L - MantBits)
         IN  IF ~up THEN [m |-> keep, e |-> e2]
             ELSE IF \A i \in 1..MantBits : keep[i] = 1
                  THEN [m |-> <<1>> \o Zeros(MantBits - 1), e |-> e2 + 1]
                  ELSE [m |-> IncBits(keep), e |-> e2]

\* float(t) / float(d) for naturals t, d with 0 < d < 2^24
FDiv(t, d) ==
    LET q  == t \div d
        r  == t % d
        ib == Bin(q)
    IN  IF q = 0 /\ r = 0 THEN FZero
        ELSE LET z  == IF q = 0 THEN LeadingZeros(r, d) ELSE 0
                 nf == IF q = 0 THEN z + MantBits + 1
                                ELSE MantBits + 1 - Len(ib)
                 fb == FracBits(r, d, nf)
                 bits == IF q = 0 THEN SubSeq(fb, z + 1, nf) ELSE ib \o fb
             IN  FRound(bits, FracRem(r, d, nf) # 0, -nf)

RECURSIVE MulSmall(_, _, _)
\* bits * k + carry as binary digits, 16 digits at a time, k < 2^14
MulSmall(bits, k, carry) ==
    LET n == Len(bits) IN
    IF n <= 16 THEN Bin(ToInt(bits) * k + carry)
    ELSE LET v == ToInt(SubSeq(bits, n - 16 + 1, n)) * k + carry
         IN  MulSmall(SubSeq(bits, 1, n - 16), k, v \div 65536)
             \o BitsW(v % 65536, 16)

\* f * float(k) for a natural number k
FMulInt(f, k) ==
    IF Len(f.m) = 0 \/ k = 0 THEN FZero
    ELSE FRound(MulSmall(f.m, k, 0), FALSE, f.e)

\* int(math.ceil(f))
FCeil(f) ==
    IF Len(f.m) = 0 THEN 0
    ELSE LET k == -f.e IN
         IF k <= 0 THEN ToInt(f.m) * Pow2(-k)
         ELSE IF k >= MantBits THEN 1
         ELSE ToInt(SubSeq(f.m, 1, MantBits - k))
              + (IF \E i \in (MantBits - k + 1)..MantBits : f.m[i] = 1
                 THEN 1 ELSE 0)

\* int(math.floor(f))
FFloor(f) ==
    IF Len(f.m) = 0 THEN 0
    ELSE LET k == -f.e IN
         IF k <= 0 THEN ToInt(f.m) * Pow2(-k)
         ELSE IF k >= MantBits THEN 0
         ELSE ToInt(SubSeq(f.m, 1, MantBits - k))

(***************************************************************************)
(* Bounds of the model and the inputs it draws.                            *)
(***************************************************************************)
MaxTextLen == 3      \* longest unit text
MaxStamps  == 2      \* most word timestamps of a unit
MaxWordLen == 2      \* longest word (text_length) of a timestamp
MaxCalls   == 2      \* calls of make_subtitles / generate_frame_span_subtitles

\* an ordinary character, a splitting mark, a mark that only attaches
TextChars == {"a", "period", "rparen"}
StartChoices == {1, 2, 3}
DurationChoices == {1, 2}

MaxUnits == 2        \* most units of a passage
MaxCues  == 2        \* most subtitles of a unit

\* ticks (100 ns) of the subtitles given to the mapper: 0.11 s, 0.22 s, 8.3 s
MapStartTicks == {1100000, 2200000, 83000000}
MapDurationTicks == {1100000}
\* audio durations given to the mapper, in quarters of a second: 2.0 s, 3.0 s
MapAudioQuarters == {8, 12}

\* audio durations given to the renderer, in quarters of a second: 0.25 s
RenderAudioQuarters == {1}

\* cv_generate_subtitle_text_frame(..., max_chars_per_line: int = 30)
DefaultMaxCharsPerLine == 30

MaxLines == 3        \* most lines of a subtitle text
\* lengths of the texts laid out and the max_chars_per_line they are cut at
LayoutLengths == 0..6 \cup {30, 31, 65}
LayoutMaxChars == {1, 2, DefaultMaxCharsPerLine}
\* sizes draw.textbbox may report for a line, in pixels
MeasuredWidths == {100, 1301}
MeasuredHeights == {32, 40}

MaxClock == 3        \* the time the clock may reach, in half seconds
\* what the application processes: the text of a paragraph, the word
\* timestamps the speech engine may report for it (none, or one word at
\* 0.11 s), and the length of its audio in quarters of a second
AppTexts == {<<"a", "period">>}
AppWordTicks == {1100000}
AppAudioQuarters == {8, 12}

\* frame rates a VideoGenerator may be constructed with
FrameRates == {-30, 0, 30}
\* what the mapper is given when the frame rate varies: 0.11 s cues, 0.25 s
RateCueTicks == {1100000}
RateAudioQuarters == {1}

\* App.__generate_video: VideoGenerator(self.output_path, 30.0, 1280, 720, ...)
Fps == 30
FrameWidth == 1280
FrameHeight == 720

(***************************************************************************)
(* Variables.                                                              *)
(***************************************************************************)
VARIABLES
    \* TextUnit (text_unit.py)
    text,                  \* TextUnit.text, a sequence of characters
    text_timestamps,       \* TextUnit.text_timestamps
    subtitles,             \* TextUnit.subtitles
    \* TextUnit.make_subtitles: its position and its locals
    seg_pc,                \* "idle" (not running) or "loop"
    ts_i,                  \* index of the timestamp the for loop is at
    cur_index,
    cur_subtitle_content,
    cur_subtitle_start,
    cur_subtitle_duration,
    seg_calls,             \* number of make_subtitles calls made
    first_subtitles        \* TextUnit.subtitles as the first call left it

segVars == <<text, text_timestamps, subtitles, seg_pc, ts_i, cur_index,
             cur_subtitle_content, cur_subtitle_start, cur_subtitle_duration,
             seg_calls, first_subtitles>>

VARIABLES
    \* VideoGenerator (video_generator.py)
    subtitle_text_units,   \* the units: their subtitles and audio durations
    fps,
    frame_span_subtitles,
    \* VideoGenerator.generate_frame_span_subtitles: position and locals
    map_pc,                \* "idle" (not running) or "loop"
    unit_i,                \* index of the unit the outer loop is at
    sub_j,                 \* index of the subtitle the inner loop is at
    cur_unit_start_frame,
    map_calls,             \* number of calls made by the application
    first_spans,           \* frame_span_subtitles as the first call left it
    \* VideoGenerator.generate: position, locals and effects
    gen_pc,                \* "idle", "map", "open", "frames" or "done"
    frame_count,
    cur_frame,
    cur_fss,               \* index into frame_span_subtitles, 0 for None
    written,               \* number of frames given to vw.write
    drawn,                 \* <<frame, span index>>: the cue drawn on the frame
    gen_result,            \* "none" until generate returns, then its value
    gen_exit               \* "none" until generate returns, then the way out:
                           \* "not_opened" (return False, the background
                           \* is not opened), "completed" (return True), or
                           \* the exception caught: "StopIteration" (next
                           \* of no span), "resize" (no image was read),
                           \* "TypeError" (the layout of no text)

mapVars == <<subtitle_text_units, fps, frame_span_subtitles, map_pc, unit_i,
             sub_j, cur_unit_start_frame, map_calls, first_spans>>

genVars == <<gen_pc, frame_count, cur_frame, cur_fss, written, drawn,
             gen_result, gen_exit>>

VARIABLES
    \* VideoGenerator.cv_generate_subtitle_text_frame: arguments, position,
    \* locals and the lines it has had drawn
    lay_pc,                \* "idle", "lines" or "done"
    lay_text,              \* text
    max_chars_per_line,
    lines,
    line_k,                \* index of the line the second loop is at
    x,                     \* None or <<the value>>
    y,                     \* None or <<the value>>
    width,
    height,
    results                \* per line: its text and the box it is drawn in

layVars == <<lay_pc, lay_text, max_chars_per_line, lines, line_k, x, y, width,
             height, results>>

VARIABLES
    \* Processor (processor.py) and the units App.__process_text gave it
    clock,                 \* time.time(), in half seconds
    audio_file_paths,      \* per unit processed: n of its audio_<n>.mp3
    tmp_files              \* tmp_dir: <<n, u>> for each audio_<n>.mp3 in
                           \* it, u the unit whose audio the file holds

procVars == <<clock, audio_file_paths, tmp_files>>

vars == <<segVars, mapVars, genVars, layVars, procVars>>

(***************************************************************************)
(* text_unit.py                                                            *)
(***************************************************************************)
SUBTITLE_SPLITING_CHARS ==
    {"comma", "period", "exclamation", "question", "semicolon", "colon"}

PUNCTRATION_MARKS ==
    SUBTITLE_SPLITING_CHARS \cup
    {"enum_comma", "dash", "lparen", "rparen", "lbracket", "rbracket",
     "ltitle", "rtitle", "ldquote", "rdquote", "lsquote", "rsquote"}

Min(a, b) == IF a <= b THEN a ELSE b

CeilDiv(a, b) == (a + b - 1) \div b

\* Python's s[a:b] for 0 <= a, 0 <= b (the slice stops at the end of s)
Slice(s, a, b) == SubSeq(s, a + 1, Min(b, Len(s)))

RECURSIVE detect_tail_punctuation_count(_, _)
detect_tail_punctuation_count(txt, tail_index) ==
    IF tail_index < Len(txt) /\ txt[tail_index + 1] \in PUNCTRATION_MARKS
    THEN 1 + detect_tail_punctuation_count(txt, tail_index + 1)
    ELSE 0

should_split_subtitle(txt, index, timestamp) ==
    LET end_index == index + timestamp.text_length
        tail_punctuation_count == detect_tail_punctuation_count(txt, end_index)
    IN  \/ /\ tail_punctuation_count > 0
           /\ \E i \in 1..tail_punctuation_count :
                  txt[end_index + i] \in SUBTITLE_SPLITING_CHARS
        \/ index + timestamp.text_length >= Len(txt)
        \/ txt[index + timestamp.text_length + 1] \in SUBTITLE_SPLITING_CHARS

TextTimestamp(start, duration, text_length) ==
    [start |-> start, duration |-> duration, text_length |-> text_length]

Subtitle(txt, start, duration) ==
    [text |-> txt, start |-> start, duration |-> duration]

\* make_subtitles is called: the locals are set up
MakeSubtitlesCall ==
    /\ seg_pc = "idle"
    /\ seg_calls < MaxCalls
    /\ seg_calls' = seg_calls + 1
    /\ seg_pc' = "loop"
    /\ ts_i' = 1
    /\ cur_index' = 0
    /\ cur_subtitle_content' = <<>>
    /\ cur_subtitle_start' = 0
    /\ cur_subtitle_duration' = 0
    /\ UNCHANGED <<text, text_timestamps, subtitles, first_subtitles>>
    /\ UNCHANGED <<mapVars, genVars, layVars, procVars>>

\* one iteration of the for loop over self.text_timestamps
MakeSubtitlesStep ==
    /\ seg_pc = "loop"
    /\ ts_i <= Len(text_timestamps)
    /\ LET timestamp == text_timestamps[ts_i]
           start_text_index == cur_index
           end_text_index ==
               start_text_index + timestamp.text_length
               + detect_tail_punctuation_count(
                     text, start_text_index + timestamp.text_length)
           txt == Slice(text, start_text_index, end_text_index)
           start == IF Len(cur_subtitle_content) = 0
                    THEN timestamp.start ELSE cur_subtitle_start
           content == cur_subtitle_content \o txt
           duration == cur_subtitle_duration + timestamp.duration
       IN  /\ IF should_split_subtitle(text, cur_index, timestamp)
              THEN /\ subtitles' =
                          Append(subtitles, Subtitle(content, start, duration))
                   /\ cur_subtitle_content' = <<>>
                   /\ cur_subtitle_start' = 0
                   /\ cur_subtitle_duration' = 0
              ELSE /\ subtitles' = subtitles
                   /\ cur_subtitle_content' = content
                   /\ cur_subtitle_start' = start
                   /\ cur_subtitle_duration' = duration
           /\ cur_index' = end_text_index
    /\ ts_i' = ts_i + 1
    /\ UNCHANGED <<text, text_timestamps, seg_pc, seg_calls, first_subtitles>>
    /\ UNCHANGED <<mapVars, genVars, layVars, procVars>>

\* the for loop is over: make_subtitles returns
MakeSubtitlesReturn ==
    /\ seg_pc = "loop"
    /\ ts_i > Len(text_timestamps)
    /\ seg_pc' = "idle"
    /\ first_subtitles' = IF seg_calls = 1 THEN subtitles ELSE first_subtitles
    /\ UNCHANGED <<text, text_timestamps, subtitles, ts_i, cur_index,
                   cur_subtitle_content, cur_subtitle_start,
                   cur_subtitle_duration, seg_calls>>
    /\ UNCHANGED <<mapVars, genVars, layVars, procVars>>

(***************************************************************************)
(* duration.py and video_generator.py                                      *)
(***************************************************************************)
\* Duration.seconds_in_total: self.raw_duration / 10 ** 7
seconds_in_total(raw_duration) == FDiv(raw_duration, 10000000)

\* int(math.ceil(duration * self.fps)), duration a float; for a negative
\* fps the product is -(duration * -fps) and its ceiling -floor(duration * -fps)
duration_to_frames(duration, rate) ==
    IF rate >= 0 THEN FCeil(FMulInt(duration, rate))
    ELSE 0 - FFloor(FMulInt(duration, 0 - rate))

raw_duration_to_frames(raw_duration, rate) ==
    duration_to_frames(seconds_in_total(raw_duration), rate)

\* pause_duration_per_unit: float = 0.25
pause_duration_per_unit == FDiv(1, 4)

\* unit.get_audio_duration(): the measured length of the unit's audio in
\* seconds, a float; the model draws it in quarters of a second
get_audio_duration(unit) == FDiv(unit.audio_quarters, 4)

FrameSpanSubtitle(subtitle, start_frame, end_frame) ==
    [subtitle |-> subtitle, start_frame |-> start_frame,
     end_frame |-> end_frame]

RECURSIVE calc_total_frames_from(_)
\* the loop of calc_total_frames from unit i on
calc_total_frames_from(i) ==
    IF i > Len(subtitle_text_units) THEN 0
    ELSE duration_to_frames(get_audio_duration(subtitle_text_units[i]), fps)
         + (IF i < Len(subtitle_text_units)
            THEN duration_to_frames(pause_duration_per_unit, fps) ELSE 0)
         + calc_total_frames_from(i + 1)

calc_total_frames == calc_total_frames_from(1)

\* the assignments generate_frame_span_subtitles starts with
EnterFrameSpanLoop ==
    /\ map_pc' = "loop"
    /\ unit_i' = 1
    /\ sub_j' = 1
    /\ cur_unit_start_frame' = 0

\* the application calls generate_frame_span_subtitles
GenerateFrameSpanSubtitlesCall ==
    /\ map_pc = "idle"
    /\ gen_pc = "idle"
    /\ map_calls < MaxCalls
    /\ map_calls' = map_calls + 1
    /\ EnterFrameSpanLoop
    /\ UNCHANGED <<subtitle_text_units, fps, frame_span_subtitles, first_spans>>
    /\ UNCHANGED <<segVars, genVars, layVars, procVars>>

\* one iteration of the inner loop: a subtitle of the unit gets its span
FrameSpanStep ==
    /\ map_pc = "loop"
    /\ unit_i <= Len(subtitle_text_units)
    /\ sub_j <= Len(subtitle_text_units[unit_i].subtitles)
    /\ LET subtitle == subtitle_text_units[unit_i].subtitles[sub_j]
           start_frame == cur_unit_start_frame
                          + raw_duration_to_frames(subtitle.start, fps)
           end_frame == start_frame
                        + raw_duration_to_frames(subtitle.duration, fps)
       IN  frame_span_subtitles' =
               Append(frame_span_subtitles,
                      FrameSpanSubtitle(subtitle, start_frame, end_frame))
    /\ sub_j' = sub_j + 1
    /\ UNCHANGED <<subtitle_text_units, fps, map_pc, unit_i,
                   cur_unit_start_frame, map_calls, first_spans>>
    /\ UNCHANGED <<segVars, genVars, layVars, procVars>>

\* FrameSpanUnitAdvance with the pause added after the last unit as well
FrameSpanUnitAdvance_PauseAfterLast ==
    /\ map_pc = "loop"
    /\ unit_i <= Len(subtitle_text_units)
    /\ sub_j > Len(subtitle_text_units[unit_i].subtitles)
    /\ cur_unit_start_frame' =
           cur_unit_start_frame
           + duration_to_frames(
                 get_audio_duration(subtitle_text_units[unit_i]), fps)
           + duration_to_frames(pause_duration_per_unit, fps)
    /\ unit_i' = unit_i + 1
    /\ sub_j' = 1
    /\ UNCHANGED <<subtitle_text_units, fps, frame_span_subtitles, map_pc,
                   map_calls, first_spans>>
    /\ UNCHANGED <<segVars, genVars, layVars, procVars>>

\* FrameSpanUnitAdvance with the cursor left where it is by a unit that has
\* no subtitles
FrameSpanUnitAdvance_SkipsEmptyUnit ==
    /\ map_pc = "loop"
    /\ unit_i <= Len(subtitle_text_units)
    /\ sub_j > Len(subtitle_text_units[unit_i].subtitles)
    /\ cur_unit_start_frame' =
           IF Len(subtitle_text_units[unit_i].subtitles) = 0
           THEN cur_unit_start_frame
           ELSE cur_unit_start_frame
                + duration_to_frames(
                      get_audio_duration(subtitle_text_units[unit_i]), fps)
                + (IF unit_i - 1 < Len(subtitle_text_units) - 1
                   THEN duration_to_frames(pause_duration_per_unit, fps)
                   ELSE 0)
    /\ unit_i' = unit_i + 1
    /\ sub_j' = 1
    /\ UNCHANGED <<subtitle_text_units, fps, frame_span_subtitles, map_pc,
                   map_calls, first_spans>>
    /\ UNCHANGED <<segVars, genVars, layVars, procVars>>

\* the end of an iteration of the outer loop: the cursor passes the unit
FrameSpanUnitAdvance ==
    /\ map_pc = "loop"
    /\ unit_i <= Len(subtitle_text_units)
    /\ sub_j > Len(subtitle_text_units[unit_i].subtitles)
    /\ cur_unit_start_frame' =
           cur_unit_start_frame
           + duration_to_frames(
                 get_audio_duration(subtitle_text_units[unit_i]), fps)
           + (IF unit_i - 1 < Len(subtitle_text_units) - 1
              THEN duration_to_frames(pause_duration_per_unit, fps) ELSE 0)
    /\ unit_i' = unit_i + 1
    /\ sub_j' = 1
    /\ UNCHANGED <<subtitle_text_units, fps, frame_span_subtitles, map_pc,
                   map_calls, first_spans>>
    /\ UNCHANGED <<segVars, genVars, layVars, procVars>>

\* the outer loop is over: generate_frame_span_subtitles returns, to the
\* application or to generate
GenerateFrameSpanSubtitlesReturn ==
    /\ map_pc = "loop"
    /\ unit_i > Len(subtitle_text_units)
    /\ map_pc' = "idle"
    /\ first_spans' = IF gen_pc = "idle" /\ map_calls = 1
                      THEN frame_span_subtitles ELSE first_spans
    /\ gen_pc' = IF gen_pc = "map" THEN "open" ELSE gen_pc
    /\ UNCHANGED <<subtitle_text_units, fps, frame_span_subtitles, unit_i,
                   sub_j, cur_unit_start_frame, map_calls>>
    /\ UNCHANGED <<frame_count, cur_frame, cur_fss, written, drawn,
                   gen_result, gen_exit>>
    /\ UNCHANGED <<segVars, layVars, procVars>>

\* generate is called: it maps the subtitles first if there are no spans
GenerateCall ==
    /\ gen_pc = "idle"
    /\ map_pc = "idle"
    /\ IF Len(frame_span_subtitles) = 0
       THEN /\ gen_pc' = "map"
            /\ EnterFrameSpanLoop
       ELSE /\ gen_pc' = "open"
            /\ UNCHANGED <<map_pc, unit_i, sub_j, cur_unit_start_frame>>
    /\ UNCHANGED <<subtitle_text_units, fps, frame_span_subtitles, map_calls,
                   first_spans>>
    /\ UNCHANGED <<frame_count, cur_frame, cur_fss, written, drawn,
                   gen_result, gen_exit>>
    /\ UNCHANGED <<segVars, layVars, procVars>>

\* the background video does not open: return False
GenerateOpenFails ==
    /\ gen_pc = "open"
    /\ gen_pc' = "done"
    /\ gen_result' = "False"
    /\ gen_exit' = "not_opened"
    /\ UNCHANGED <<frame_count, cur_frame, cur_fss, written, drawn>>
    /\ UNCHANGED <<segVars, mapVars, layVars, procVars>>

\* the background video opens: the frames are counted and the first span is
\* taken; next() of an empty list raises StopIteration, caught: return False
GenerateOpen ==
    /\ gen_pc = "open"
    /\ frame_count' = calc_total_frames
    /\ IF Len(frame_span_subtitles) = 0
       THEN /\ gen_pc' = "done"
            /\ gen_result' = "False"
            /\ gen_exit' = "StopIteration"
            /\ cur_fss' = cur_fss
       ELSE /\ gen_pc' = "frames"
            /\ gen_result' = gen_result
            /\ gen_exit' = gen_exit
            /\ cur_fss' = 1
    /\ cur_frame' = 0
    /\ UNCHANGED <<written, drawn>>
    /\ UNCHANGED <<segVars, mapVars, layVars, procVars>>

\* one iteration of the loop over range(frame_count).  Laying out an empty
\* subtitle text gives x = None, and fss_x + fss_width raises: return False
RenderFrame ==
    /\ gen_pc = "frames"
    /\ cur_frame < frame_count
    /\ LET draws == /\ cur_fss # 0
                    /\ cur_frame >= frame_span_subtitles[cur_fss].start_frame
       IN  IF draws /\ Len(frame_span_subtitles[cur_fss].subtitle.text) = 0
           THEN /\ gen_pc' = "done"
                /\ gen_result' = "False"
                /\ gen_exit' = "TypeError"
                /\ UNCHANGED <<cur_frame, cur_fss, written, drawn>>
           ELSE /\ drawn' = IF draws THEN drawn \cup {<<cur_frame, cur_fss>>}
                                     ELSE drawn
                /\ cur_fss' =
                       IF draws /\ cur_frame
                                     >= frame_span_subtitles[cur_fss].end_frame
                       THEN IF cur_fss < Len(frame_span_subtitles)
                            THEN cur_fss + 1 ELSE 0
                       ELSE cur_fss
                /\ written' = written + 1
                /\ cur_frame' = cur_frame + 1
                /\ UNCHANGED <<gen_pc, gen_result, gen_exit>>
    /\ UNCHANGED frame_count
    /\ UNCHANGED <<segVars, mapVars, layVars, procVars>>

\* no frame can be read from the background videos: cv2.resize raises
RenderFrameReadFails ==
    /\ gen_pc = "frames"
    /\ cur_frame < frame_count
    /\ gen_pc' = "done"
    /\ gen_result' = "False"
    /\ gen_exit' = "resize"
    /\ UNCHANGED <<frame_count, cur_frame, cur_fss, written, drawn>>
    /\ UNCHANGED <<segVars, mapVars, layVars, procVars>>

\* the loop over the frames is over: return True
GenerateReturn ==
    /\ gen_pc = "frames"
    /\ cur_frame >= frame_count
    /\ gen_pc' = "done"
    /\ gen_result' = "True"
    /\ gen_exit' = "completed"
    /\ UNCHANGED <<frame_count, cur_frame, cur_fss, written, drawn>>
    /\ UNCHANGED <<segVars, mapVars, layVars, procVars>>

\* int(n / 2): Python's int() drops the fraction
IntHalf(n) == IF n >= 0 THEN n \div 2 ELSE -((-n) \div 2)

BOTTOM_DISTANCE == 60

\* Python's None, for x and y
None == <<>>

\* the first loop of cv_generate_subtitle_text_frame: the text cut in lines
RECURSIVE BreakLines(_, _, _)
BreakLines(txt, i, max_chars) ==
    IF i >= Len(txt) THEN <<>>
    ELSE LET end == IF i + max_chars > Len(txt) THEN Len(txt)
                    ELSE i + max_chars
         IN  <<Slice(txt, i, end)>> \o BreakLines(txt, i + max_chars, max_chars)

\* cv_generate_subtitle_text_frame_single: where the text is drawn, given
\* the size draw.textbbox measures for it
SubtitleTextFrameSingle(txt, y_offset, text_width, text_height) ==
    [text   |-> txt,
     x      |-> IntHalf(FrameWidth - text_width),
     y      |-> FrameHeight - text_height - BOTTOM_DISTANCE + y_offset,
     width  |-> text_width,
     height |-> text_height]

\* cv_generate_subtitle_text_frame is called
SubtitleTextFrameCall ==
    /\ lay_pc = "idle"
    /\ lines' = BreakLines(lay_text, 0, max_chars_per_line)
    /\ x' = None
    /\ y' = None
    /\ width' = 0
    /\ height' = 0
    /\ results' = <<>>
    /\ line_k' = 1
    /\ lay_pc' = "lines"
    /\ UNCHANGED <<lay_text, max_chars_per_line>>
    /\ UNCHANGED <<segVars, mapVars, genVars, procVars>>

\* SubtitleTextFrameLine with the block width taken from the line last drawn
SubtitleTextFrameLine_LastWidth ==
    /\ lay_pc = "lines"
    /\ line_k <= Len(lines)
    /\ \E text_width \in MeasuredWidths, text_height \in MeasuredHeights :
           LET y_offset == 0
               cur == SubtitleTextFrameSingle(lines[line_k], height + y_offset,
                                              text_width, text_height)
           IN  /\ x' = <<cur.x>>
               /\ y' = IF x = None \/ y = None THEN <<cur.y>> ELSE y
               /\ width' = cur.width
               /\ height' = height + cur.height
               /\ results' = Append(results, cur)
    /\ line_k' = line_k + 1
    /\ UNCHANGED <<lay_pc, lay_text, max_chars_per_line, lines>>
    /\ UNCHANGED <<segVars, mapVars, genVars, procVars>>

\* one iteration of the second loop: a line is measured and drawn
SubtitleTextFrameLine ==
    /\ lay_pc = "lines"
    /\ line_k <= Len(lines)
    /\ \E text_width \in MeasuredWidths, text_height \in MeasuredHeights :
           LET y_offset == 0
               cur == SubtitleTextFrameSingle(lines[line_k], height + y_offset,
                                              text_width, text_height)
           IN  /\ x' = IF x = None \/ y = None \/ cur.width > width
                       THEN <<cur.x>> ELSE x
               /\ y' = IF x = None \/ y = None THEN <<cur.y>> ELSE y
               /\ width' = IF cur.width > width THEN cur.width ELSE width
               /\ height' = height + cur.height
               /\ results' = Append(results, cur)
    /\ line_k' = line_k + 1
    /\ UNCHANGED <<lay_pc, lay_text, max_chars_per_line, lines>>
    /\ UNCHANGED <<segVars, mapVars, genVars, procVars>>

\* the second loop is over: return results, x, y, width, height
SubtitleTextFrameReturn ==
    /\ lay_pc = "lines"
    /\ line_k > Len(lines)
    /\ lay_pc' = "done"
    /\ UNCHANGED <<lay_text, max_chars_per_line, lines, line_k, x, y, width,
                   height, results>>
    /\ UNCHANGED <<segVars, mapVars, genVars, procVars>>

(***************************************************************************)
(* processor.py and app.py                                                 *)
(***************************************************************************)
\* time passes
ClockTick ==
    /\ clock < MaxClock
    /\ clock' = clock + 1
    /\ UNCHANGED <<audio_file_paths, tmp_files>>
    /\ UNCHANGED <<segVars, mapVars, genVars, layVars>>

\* f"audio_{int(time.time())}.mp3": the whole seconds of the clock
output_name == clock \div 2

\* Processor.process for the unit that is processed u-th: the unit gets its
\* audio_file_path and open(output_path, 'wb') makes the file the unit's
ProcessorProcess(u) ==
    /\ audio_file_paths' = Append(audio_file_paths, output_name)
    /\ tmp_files' = {f \in tmp_files : f[1] # output_name}
                     \cup {<<output_name, u>>}
    /\ UNCHANGED clock

\* the word timestamps Processor.__process_word_boundary may leave in a unit
AppTimestampLists ==
    {<<>>} \cup {<<TextTimestamp(s, d, 1)>> : s \in AppWordTicks,
                                              d \in AppWordTicks}

\* App.__process_text: the title is processed
AppProcessTitle ==
    /\ Len(audio_file_paths) = 0
    /\ ProcessorProcess(1)
    /\ UNCHANGED <<segVars, mapVars, genVars, layVars>>

\* App.__process_text, an iteration of the loop as far as the call of
\* make_subtitles: unit = TextUnit(content), the processor gives it its
\* audio file and the word timestamps of the speech engine
AppProcessContent ==
    /\ Len(audio_file_paths) >= 1
    /\ seg_pc = "idle"
    /\ seg_calls = 0
    /\ map_pc = "idle"
    /\ map_calls = 0
    /\ Len(subtitle_text_units) < MaxUnits
    /\ \E txt \in AppTexts, timestamps \in AppTimestampLists :
           /\ text' = txt
           /\ text_timestamps' = timestamps
    /\ subtitles' = <<>>
    /\ ProcessorProcess(Len(audio_file_paths) + 1)
    /\ seg_calls' = 1
    /\ seg_pc' = "loop"
    /\ ts_i' = 1
    /\ cur_index' = 0
    /\ cur_subtitle_content' = <<>>
    /\ cur_subtitle_start' = 0
    /\ cur_subtitle_duration' = 0
    /\ UNCHANGED first_subtitles
    /\ UNCHANGED <<mapVars, genVars, layVars>>

\* App.__process_text, the end of the iteration: make_subtitles has returned
\* and the unit is appended to passage.content_units, the list the
\* VideoGenerator is given
AppAppendUnit ==
    /\ seg_pc = "idle"
    /\ seg_calls = 1
    /\ map_calls = 0
    /\ \E quarters \in AppAudioQuarters :
           subtitle_text_units' =
               Append(subtitle_text_units,
                      [text |-> text, text_timestamps |-> text_timestamps,
                       subtitles |-> subtitles, audio_quarters |-> quarters])
    /\ seg_calls' = 0
    /\ UNCHANGED <<text, text_timestamps, subtitles, seg_pc, ts_i, cur_index,
                   cur_subtitle_content, cur_subtitle_start,
                   cur_subtitle_duration, first_subtitles>>
    /\ UNCHANGED <<fps, frame_span_subtitles, map_pc, unit_i, sub_j,
                   cur_unit_start_frame, map_calls, first_spans>>
    /\ UNCHANGED <<genVars, layVars, procVars>>

\* App.__generate_video: the text is processed, the VideoGenerator is made
\* and generate_frame_span_subtitles is called
AppGenerateVideo ==
    /\ Len(audio_file_paths) >= 1
    /\ seg_pc = "idle"
    /\ seg_calls = 0
    /\ map_calls = 0
    /\ GenerateFrameSpanSubtitlesCall

(***************************************************************************)
(* The segmenter on its own: one unit, any text and any word timestamps.   *)
(***************************************************************************)
SeqsUpTo(S, n) == UNION {[1..k -> S] : k \in 0..n}

Texts == SeqsUpTo(TextChars, MaxTextLen)

Timestamps ==
    {TextTimestamp(s, d, l) :
         s \in StartChoices, d \in DurationChoices, l \in 0..MaxWordLen}

\* the speech engine reports the words in order of time
TimestampLists ==
    {tl \in SeqsUpTo(Timestamps, MaxStamps) :
         \A i \in 1..(Len(tl) - 1) : tl[i].start < tl[i + 1].start}

\* the segmenter before any call
SegIdle(txt, timestamps) ==
    /\ text = txt
    /\ text_timestamps = timestamps
    /\ subtitles = <<>>
    /\ seg_pc = "idle"
    /\ ts_i = 1
    /\ cur_index = 0
    /\ cur_subtitle_content = <<>>
    /\ cur_subtitle_start = 0
    /\ cur_subtitle_duration = 0
    /\ seg_calls = 0
    /\ first_subtitles = <<>>

\* VideoGenerator.__init__ for the given units
MapIdle(units) ==
    /\ subtitle_text_units = units
    /\ fps = Fps
    /\ frame_span_subtitles = <<>>
    /\ map_pc = "idle"
    /\ unit_i = 1
    /\ sub_j = 1
    /\ cur_unit_start_frame = 0
    /\ map_calls = 0
    /\ first_spans = <<>>

\* VideoGenerator.__init__ for the given units and the given fps
VideoGeneratorInit(units, rate) ==
    /\ subtitle_text_units = units
    /\ fps = rate
    /\ frame_span_subtitles = <<>>
    /\ map_pc = "idle"
    /\ unit_i = 1
    /\ sub_j = 1
    /\ cur_unit_start_frame = 0
    /\ map_calls = 0
    /\ first_spans = <<>>

\* generate not called yet
GenIdle ==
    /\ gen_pc = "idle"
    /\ frame_count = 0
    /\ cur_frame = 0
    /\ cur_fss = 0
    /\ written = 0
    /\ drawn = {}
    /\ gen_result = "none"
    /\ gen_exit = "none"

\* Processor.__init__: no unit processed yet, the clock at second 0
ProcIdle ==
    /\ clock = 0
    /\ audio_file_paths = <<>>
    /\ tmp_files = {}

\* cv_generate_subtitle_text_frame not called yet
LayIdle(txt, max_chars) ==
    /\ lay_pc = "idle"
    /\ lay_text = txt
    /\ max_chars_per_line = max_chars
    /\ lines = <<>>
    /\ line_k = 1
    /\ x = None
    /\ y = None
    /\ width = 0
    /\ height = 0
    /\ results = <<>>

SegInit ==
    /\ \E txt \in Texts, timestamps \in TimestampLists :
           SegIdle(txt, timestamps)
    /\ MapIdle(<<>>)
    /\ GenIdle
    /\ LayIdle(<<>>, DefaultMaxCharsPerLine)
    /\ ProcIdle

SegNext == MakeSubtitlesCall \/ MakeSubtitlesStep \/ MakeSubtitlesReturn

SegSpec == SegInit /\ [][SegNext]_vars

(***************************************************************************)
(* The frame-span mapper on its own: units that are already segmented.     *)
(* A unit's subtitles follow one another in time, as make_subtitles leaves *)
(* them for words that are spoken one after the other.                     *)
(***************************************************************************)
CueLists(cues) ==
    {cl \in SeqsUpTo(cues, MaxCues) :
         \A i \in 1..(Len(cl) - 1) :
             cl[i].start + cl[i].duration <= cl[i + 1].start}

Units(cues, quarters) ==
    SeqsUpTo([subtitles : CueLists(cues), audio_quarters : quarters], MaxUnits)

MapCues ==
    {Subtitle(<<"a">>, s, d) : s \in MapStartTicks, d \in MapDurationTicks}

MapInit ==
    /\ SegIdle(<<>>, <<>>)
    /\ \E units \in Units(MapCues, MapAudioQuarters) : MapIdle(units)
    /\ GenIdle
    /\ LayIdle(<<>>, DefaultMaxCharsPerLine)
    /\ ProcIdle

MapNext ==
    \/ GenerateFrameSpanSubtitlesCall
    \/ FrameSpanStep
    \/ FrameSpanUnitAdvance
    \/ GenerateFrameSpanSubtitlesReturn

MapSpec == MapInit /\ [][MapNext]_vars

(***************************************************************************)
(* The renderer: generate, with or without the application's own call of   *)
(* generate_frame_span_subtitles before it.                                *)
(***************************************************************************)
RenderCues ==
    {Subtitle(<<"a">>, 0, 1100000),        \* frames 0 to 4
     Subtitle(<<"a">>, 1100000, 1100000),  \* frames 4 to 8
     Subtitle(<<"a">>, 1100000, 0),        \* frames 4 to 4
     Subtitle(<<>>, 1100000, 1100000)}     \* no text

RenderInit ==
    /\ SegIdle(<<>>, <<>>)
    /\ \E units \in Units(RenderCues, RenderAudioQuarters) : MapIdle(units)
    /\ GenIdle
    /\ LayIdle(<<>>, DefaultMaxCharsPerLine)
    /\ ProcIdle

RenderNext ==
    \/ GenerateFrameSpanSubtitlesCall
    \/ FrameSpanStep
    \/ FrameSpanUnitAdvance
    \/ GenerateFrameSpanSubtitlesReturn
    \/ GenerateCall
    \/ GenerateOpenFails
    \/ GenerateOpen
    \/ RenderFrame
    \/ RenderFrameReadFails
    \/ GenerateReturn

RenderSpec == RenderInit /\ [][RenderNext]_vars

(***************************************************************************)
(* The application: the title and the paragraphs are processed one after   *)
(* the other while time passes, each paragraph is segmented, and the       *)
(* frame spans of the units are mapped.                                    *)
(***************************************************************************)
AppInit ==
    /\ SegIdle(<<>>, <<>>)
    /\ MapIdle(<<>>)
    /\ GenIdle
    /\ LayIdle(<<>>, DefaultMaxCharsPerLine)
    /\ ProcIdle

AppNext ==
    \/ ClockTick
    \/ AppProcessTitle
    \/ AppProcessContent
    \/ MakeSubtitlesStep
    \/ MakeSubtitlesReturn
    \/ AppAppendUnit
    \/ AppGenerateVideo
    \/ FrameSpanStep
    \/ FrameSpanUnitAdvance
    \/ GenerateFrameSpanSubtitlesReturn

AppSpec == AppInit /\ [][AppNext]_vars

(***************************************************************************)
(* The mapper and the renderer of a VideoGenerator constructed with any    *)
(* frame rate, positive or not.                                            *)
(***************************************************************************)
RateCues ==
    {Subtitle(<<"a">>, s, d) : s \in RateCueTicks, d \in RateCueTicks}

RateInit ==
    /\ SegIdle(<<>>, <<>>)
    /\ \E units \in Units(RateCues, RateAudioQuarters), rate \in FrameRates :
           VideoGeneratorInit(units, rate)
    /\ GenIdle
    /\ LayIdle(<<>>, DefaultMaxCharsPerLine)
    /\ ProcIdle

RateNext ==
    \/ GenerateFrameSpanSubtitlesCall
    \/ FrameSpanStep
    \/ FrameSpanUnitAdvance
    \/ GenerateFrameSpanSubtitlesReturn
    \/ GenerateCall
    \/ GenerateOpenFails
    \/ GenerateOpen
    \/ RenderFrame
    \/ RenderFrameReadFails
    \/ GenerateReturn

RateSpec == RateInit /\ [][RateNext]_vars

(***************************************************************************)
(* The layout of one subtitle text: any text of distinct characters, the   *)
(* default or a smaller max_chars_per_line, any measured size per line.    *)
(***************************************************************************)
LayoutInputs ==
    {in \in [len : LayoutLengths, max_chars : LayoutMaxChars] :
         CeilDiv(in.len, in.max_chars) <= MaxLines}

LayoutInit ==
    /\ SegIdle(<<>>, <<>>)
    /\ MapIdle(<<>>)
    /\ GenIdle
    /\ \E in \in LayoutInputs : LayIdle([i \in 1..in.len |-> i], in.max_chars)
    /\ ProcIdle

LayoutNext ==
    \/ SubtitleTextFrameCall
    \/ SubtitleTextFrameLine
    \/ SubtitleTextFrameReturn

LayoutSpec == LayoutInit /\ [][LayoutNext]_vars

(***************************************************************************)
(* What one make_subtitles run has to produce, computed from the input.    *)
(***************************************************************************)
RECURSIVE CursorBefore(_)
\* cur_index when the loop reaches timestamp k (k = Len + 1: after the loop)
CursorBefore(k) ==
    IF k = 1 THEN 0
    ELSE LET word_end == CursorBefore(k - 1) + text_timestamps[k - 1].text_length
         IN  word_end + detect_tail_punctuation_count(text, word_end)

\* every word lies inside the text
Fits ==
    \A k \in 1..Len(text_timestamps) :
        CursorBefore(k) + text_timestamps[k].text_length <= Len(text)

\* the loop closes a cue at timestamp k
FlushAt(k) == should_split_subtitle(text, CursorBefore(k), text_timestamps[k])

FlushPoints == {k \in 1..Len(text_timestamps) : FlushAt(k)}

\* the timestamp that closes the j-th cue, and the first timestamp of that cue
LastOfCue(j) ==
    CHOOSE k \in FlushPoints : Cardinality({i \in FlushPoints : i <= k}) = j

FirstOfCue(j) == IF j = 1 THEN 1 ELSE LastOfCue(j - 1) + 1

RECURSIVE SumDurations(_, _)
SumDurations(a, b) ==
    IF a > b THEN 0 ELSE text_timestamps[a].duration + SumDurations(a + 1, b)

RECURSIVE ConcatTexts(_)
ConcatTexts(subs) ==
    IF Len(subs) = 0 THEN <<>> ELSE subs[1].text \o ConcatTexts(Tail(subs))

\* the first make_subtitles call has returned
SegDoneOnce == seg_pc = "idle" /\ seg_calls = 1

(***************************************************************************)
(* C1: after make_subtitles, the cue texts concatenated are the source     *)
(* text up to the extended end of the last timestamp: nothing dropped,     *)
(* nothing duplicated, the content after the last flush emitted too.       *)
(***************************************************************************)
C1_CuesCoverSpokenText ==
    (SegDoneOnce /\ Fits) =>
        ConcatTexts(subtitles)
            = Slice(text, 0, CursorBefore(Len(text_timestamps) + 1))

(***************************************************************************)
(* C2: a cue is closed at a timestamp iff a splitting mark is in the       *)
(* trailing run, or the EXTENDED word end reaches the end of the text, or  *)
(* the character at the pre-extension word end is a splitting mark.        *)
(***************************************************************************)
ClaimedFlushCondition ==
    LET word_end == cur_index + text_timestamps[ts_i].text_length
        run      == detect_tail_punctuation_count(text, word_end)
    IN  \/ \E i \in 1..run : text[word_end + i] \in SUBTITLE_SPLITING_CHARS
        \/ word_end + run >= Len(text)
        \/ /\ word_end < Len(text)
           /\ text[word_end + 1] \in SUBTITLE_SPLITING_CHARS

C2_FlushIffCondition ==
    [][(seg_pc = "loop" /\ ts_i' = ts_i + 1) =>
          ((Len(subtitles') = Len(subtitles) + 1) <=> ClaimedFlushCondition)]_vars

(***************************************************************************)
(* C3: every cue lasts the sum of the durations of the timestamps since    *)
(* the previous flush and starts when the first of them starts, also when  *)
(* one of them has text_length 0.                                          *)
(***************************************************************************)
C3_CueStartAndDuration ==
    SegDoneOnce =>
        /\ Len(subtitles) = Cardinality(FlushPoints)
        /\ \A j \in 1..Len(subtitles) :
              /\ subtitles[j].duration
                     = SumDurations(FirstOfCue(j), LastOfCue(j))
              /\ subtitles[j].start = text_timestamps[FirstOfCue(j)].start

\* the part of C3 about the duration alone
C3_CueDuration ==
    SegDoneOnce =>
        /\ Len(subtitles) = Cardinality(FlushPoints)
        /\ \A j \in 1..Len(subtitles) :
              subtitles[j].duration = SumDurations(FirstOfCue(j), LastOfCue(j))

(***************************************************************************)
(* What the mapper has to produce, computed in exact arithmetic.           *)
(***************************************************************************)
\* the smallest n with n * 10_000_000 >= ticks * fps
ExactFramesOfTicks(ticks) ==
    (ticks \div 10000000) * fps + CeilDiv((ticks % 10000000) * fps, 10000000)

\* ceil(seconds * fps) for a duration of q quarters of a second
ExactFramesOfQuarters(q) == CeilDiv(q * fps, 4)

\* ceil(pause * fps) for the pause of a quarter of a second
ExactPauseFrames == ExactFramesOfQuarters(1)

RECURSIVE UnitBase(_)
\* B_i: the frames of the units before unit i and of the pauses after them
UnitBase(i) ==
    IF i = 1 THEN 0
    ELSE UnitBase(i - 1)
         + ExactFramesOfQuarters(subtitle_text_units[i - 1].audio_quarters)
         + ExactPauseFrames

RECURSIVE SumAudioFrames(_)
SumAudioFrames(i) ==
    IF i = 0 THEN 0
    ELSE SumAudioFrames(i - 1)
         + ExactFramesOfQuarters(subtitle_text_units[i].audio_quarters)

RECURSIVE CuesBefore(_)
\* number of subtitles of the units before unit i
CuesBefore(i) ==
    IF i = 1 THEN 0
    ELSE CuesBefore(i - 1) + Len(subtitle_text_units[i - 1].subtitles)

\* the unit that owns the k-th subtitle of the passage, and that subtitle
UnitOfSpan(k) ==
    CHOOSE i \in 1..Len(subtitle_text_units) :
        CuesBefore(i) < k /\ k <= CuesBefore(i + 1)

CueOfSpan(k) ==
    subtitle_text_units[UnitOfSpan(k)].subtitles[k - CuesBefore(UnitOfSpan(k))]

\* the application's first generate_frame_span_subtitles call has returned
MapDoneOnce == map_pc = "idle" /\ gen_pc = "idle" /\ map_calls = 1

AllCuesMapped ==
    Len(frame_span_subtitles) = CuesBefore(Len(subtitle_text_units) + 1)

(***************************************************************************)
(* C4: the frame spans are in non-decreasing start_frame order over the    *)
(* whole sequence and consecutive spans do not overlap.                    *)
(***************************************************************************)
C4_SpansOrderedAndDisjoint ==
    MapDoneOnce =>
        \A k \in 1..(Len(frame_span_subtitles) - 1) :
            /\ frame_span_subtitles[k].start_frame
                   <= frame_span_subtitles[k + 1].start_frame
            /\ frame_span_subtitles[k].end_frame
                   <= frame_span_subtitles[k + 1].start_frame

(***************************************************************************)
(* C5: every frame span lies inside the frame range of its unit:           *)
(* B <= start_frame <= end_frame <= B + A.                                 *)
(***************************************************************************)
C5_SpanInsideUnitRange ==
    MapDoneOnce =>
        /\ AllCuesMapped
        /\ \A k \in 1..Len(frame_span_subtitles) :
              LET B == UnitBase(UnitOfSpan(k))
                  A == ExactFramesOfQuarters(
                           subtitle_text_units[UnitOfSpan(k)].audio_quarters)
                  span == frame_span_subtitles[k]
              IN  /\ B <= span.start_frame
                  /\ span.start_frame <= span.end_frame
                  /\ span.end_frame <= B + A

(***************************************************************************)
(* C6: for N >= 1 units calc_total_frames is the final cursor of           *)
(* generate_frame_span_subtitles and is the sum of ceil(audio * fps) over  *)
(* the units plus ceil(pause * fps) * (N - 1).                             *)
(***************************************************************************)
C6_TotalFrames ==
    LET N == Len(subtitle_text_units) IN
    (map_pc = "idle" /\ map_calls >= 1 /\ N >= 1) =>
        /\ calc_total_frames = cur_unit_start_frame
        /\ calc_total_frames = SumAudioFrames(N) + ExactPauseFrames * (N - 1)

\* durations 2.0 and 3.0, pause 0.25, fps 30 give 158
C6_Witness ==
    /\ MapDoneOnce
    /\ Len(subtitle_text_units) = 2
    /\ subtitle_text_units[1].audio_quarters = 8
    /\ subtitle_text_units[2].audio_quarters = 12
    /\ fps = 30
    /\ cur_unit_start_frame = 158
    /\ calc_total_frames = 158

(***************************************************************************)
(* C7: the span of a cue of unit i starts at B_i + framesFor(start) and    *)
(* ends framesFor(duration) later, framesFor(ticks) being the smallest n   *)
(* with n * 10_000_000 >= ticks * fps.                                     *)
(***************************************************************************)
C7_SpanPlacementExact ==
    MapDoneOnce =>
        /\ AllCuesMapped
        /\ \A k \in 1..Len(frame_span_subtitles) :
              LET span == frame_span_subtitles[k] IN
              /\ span.subtitle = CueOfSpan(k)
              /\ span.start_frame
                     = UnitBase(UnitOfSpan(k))
                       + ExactFramesOfTicks(CueOfSpan(k).start)
              /\ span.end_frame
                     = span.start_frame
                       + ExactFramesOfTicks(CueOfSpan(k).duration)

(***************************************************************************)
(* C9: a second make_subtitles call leaves the cue list as the first call  *)
(* left it, and a second generate_frame_span_subtitles call leaves the     *)
(* span list as the first call left it.                                    *)
(***************************************************************************)
C9_SecondRunSameOutput ==
    /\ (seg_pc = "idle" /\ seg_calls = 2) => subtitles = first_subtitles
    /\ (map_pc = "idle" /\ gen_pc = "idle" /\ map_calls = 2)
           => frame_span_subtitles = first_spans

(***************************************************************************)
(* C8: the renderer walks the frames once with a span cursor that only     *)
(* moves forward, and the cursor's cue is drawn on frame f exactly when    *)
(* start_frame <= f < end_frame: not on frame end_frame or later, and on   *)
(* no frame when start_frame = end_frame.                                  *)
(***************************************************************************)
C8_DrawnExactlyInsideSpan ==
    [][(gen_pc = "frames" /\ cur_frame' = cur_frame + 1) =>
          /\ written' = written + 1
          /\ \/ cur_fss' = cur_fss
             \/ cur_fss # 0 /\ cur_fss' = cur_fss + 1
             \/ cur_fss = Len(frame_span_subtitles) /\ cur_fss' = 0
          /\ cur_fss # 0 =>
                (<<cur_frame, cur_fss>> \in drawn'
                 <=> /\ frame_span_subtitles[cur_fss].start_frame <= cur_frame
                     /\ cur_frame < frame_span_subtitles[cur_fss].end_frame)]_vars

(***************************************************************************)
(* C10: the lines of a multi-line cue are stacked bottom-up: the last      *)
(* chunk is the lowest line, each earlier chunk ends where the next one    *)
(* begins, the lowest line's bottom edge is BOTTOM_DISTANCE above the      *)
(* frame's bottom edge, and no line's bottom edge is below that.           *)
(***************************************************************************)
BottomEdge(line) == line.y + line.height

C10_StackedBottomUp ==
    (lay_pc = "done" /\ Len(results) >= 2) =>
        LET n == Len(results) IN
        /\ \A k \in 1..n : BottomEdge(results[k]) <= BottomEdge(results[n])
        /\ \A k \in 1..(n - 1) : BottomEdge(results[k]) = results[k + 1].y
        /\ BottomEdge(results[n]) = FrameHeight - BOTTOM_DISTANCE
        /\ \A k \in 1..n :
               BottomEdge(results[k]) <= FrameHeight - BOTTOM_DISTANCE

(***************************************************************************)
(* C11: a text of length L cut at m >= 1 gives ceil(L / m) lines in text   *)
(* order, each of length m except the last, of length 1 to m; the lines    *)
(* concatenated are the text (65 characters at 30 give 30, 30, 5; no text  *)
(* gives no line); the block is as wide as the widest line measured and as *)
(* high as the sum of the heights measured.                                *)
(***************************************************************************)
RECURSIVE ConcatLines(_)
ConcatLines(ls) ==
    IF Len(ls) = 0 THEN <<>> ELSE ls[1] \o ConcatLines(Tail(ls))

RECURSIVE SumHeights(_)
SumHeights(k) == IF k = 0 THEN 0 ELSE SumHeights(k - 1) + results[k].height

MaxOf(S) == CHOOSE m \in S : \A v \in S : v <= m

C11_LineBreaking ==
    (lay_pc \in {"lines", "done"} /\ max_chars_per_line >= 1) =>
        LET L == Len(lay_text)
            m == max_chars_per_line
            n == Len(lines)
        IN  /\ n = CeilDiv(L, m)
            /\ \A k \in 1..(n - 1) : Len(lines[k]) = m
            /\ n >= 1 => Len(lines[n]) \in 1..m
            /\ ConcatLines(lines) = lay_text
            /\ (L = 65 /\ m = 30) =>
                   [k \in 1..n |-> Len(lines[k])] = <<30, 30, 5>>
            /\ L = 0 => lines = <<>>
            /\ lay_pc = "done" =>
                   /\ Len(results) = n
                   /\ \A k \in 1..n : results[k].text = lines[k]
                   /\ width = MaxOf({results[k].width : k \in 1..n} \cup {0})
                   /\ height = SumHeights(n)

\* 65 characters at 30: three lines, the second one the widest
C11_Witness ==
    /\ lay_pc = "done"
    /\ Len(lay_text) = 65
    /\ max_chars_per_line = 30
    /\ Len(lines) = 3
    /\ Len(lines[3]) = 5
    /\ results[1].width = 100
    /\ results[2].width = 1301
    /\ results[3].width = 100
    /\ width = 1301
    /\ height = 32 + 40 + 32

(***************************************************************************)
(* C12: with fps <= 0 the time conversion fails before any frame count is  *)
(* computed: generate_frame_span_subtitles appends no frame span and       *)
(* calc_total_frames returns no total to generate.                         *)
(***************************************************************************)
\* generate has got a total from calc_total_frames
TotalReturned ==
    \/ gen_pc = "frames"
    \/ gen_pc = "done" /\ gen_exit # "not_opened"

C12_NoFramesAtInvalidRate ==
    fps <= 0 => (Len(frame_span_subtitles) = 0 /\ ~TotalReturned)

(***************************************************************************)
(* C13: a unit with no timestamps gets no cue, without error, and no frame *)
(* span, and still moves the cursor by the frames of its audio, and of the *)
(* pause if it is not the last unit: the spans of the later units are      *)
(* shifted by exactly that.                                                *)
(***************************************************************************)
\* the cursor after all N >= 1 units
FinalCursor ==
    LET N == Len(subtitle_text_units) IN
    SumAudioFrames(N) + ExactPauseFrames * (N - 1)

C13_EmptyUnitKeepsItsTime ==
    LET N == Len(subtitle_text_units) IN
    /\ (seg_pc = "idle" /\ seg_calls = 1 /\ Len(text_timestamps) = 0)
           => subtitles = <<>>
    /\ \A i \in 1..N :
           Len(subtitle_text_units[i].text_timestamps) = 0
               => Len(subtitle_text_units[i].subtitles) = 0
    /\ (map_pc = "loop" /\ unit_i <= N)
           => cur_unit_start_frame = UnitBase(unit_i)
    /\ (map_calls = 1 /\ unit_i > N /\ N >= 1)
           => cur_unit_start_frame = FinalCursor
    /\ (map_calls = 1 /\ map_pc = "idle") =>
           /\ AllCuesMapped
           /\ \A k \in 1..Len(frame_span_subtitles) :
                  /\ frame_span_subtitles[k].subtitle = CueOfSpan(k)
                  /\ frame_span_subtitles[k].start_frame
                         = UnitBase(UnitOfSpan(k))
                           + raw_duration_to_frames(CueOfSpan(k).start, fps)

\* a unit without timestamps (2.0 s of audio) before a unit with one cue at
\* 0.11 s: the one span starts at 60 + 8 + 4
C13_Witness ==
    /\ map_calls = 1
    /\ map_pc = "idle"
    /\ Len(subtitle_text_units) = 2
    /\ Len(subtitle_text_units[1].text_timestamps) = 0
    /\ Len(subtitle_text_units[1].subtitles) = 0
    /\ subtitle_text_units[1].audio_quarters = 8
    /\ Len(subtitle_text_units[2].subtitles) = 1
    /\ subtitle_text_units[2].audio_quarters = 12
    /\ Len(frame_span_subtitles) = 1
    /\ frame_span_subtitles[1].start_frame = 72
    /\ cur_unit_start_frame = 158

(***************************************************************************)
(* C14: the units processed have audio file paths that differ from one     *)
(* another, and the file of each still holds that unit's audio: no later   *)
(* process call has written over it, also when two calls start within the  *)
(* same whole second.                                                      *)
(***************************************************************************)
C14_AudioFilesDistinct ==
    LET n == Len(audio_file_paths) IN
    /\ \A u, v \in 1..n :
           u # v => audio_file_paths[u] # audio_file_paths[v]
    /\ \A u \in 1..n : <<audio_file_paths[u], u>> \in tmp_files

(***************************************************************************)
(* C15: when generate returns after the background opened, with no frame   *)
(* span it has written no frame and returns False, whatever                *)
(* calc_total_frames is; with a frame span and no error of reading or      *)
(* writing it has written calc_total_frames frames, those after the last   *)
(* span too, and returns True.                                             *)
(***************************************************************************)
C15_GenerateOutcome ==
    (gen_pc = "done" /\ gen_exit # "not_opened") =>
        /\ Len(frame_span_subtitles) = 0
               => (written = 0 /\ gen_result = "False")
        /\ (Len(frame_span_subtitles) > 0 /\ gen_exit # "resize")
               => (written = calc_total_frames /\ gen_result = "True")

\* the part of C15 that leaves aside a cue without text reached by the cursor
C15_OutcomeUnlessEmptyText ==
    (gen_pc = "done" /\ gen_exit # "not_opened") =>
        /\ Len(frame_span_subtitles) = 0
               => (written = 0 /\ gen_result = "False")
        /\ (Len(frame_span_subtitles) > 0
            /\ gen_exit \notin {"resize", "TypeError"})
               => (written = calc_total_frames /\ gen_result = "True")

====
